---- MODULE Spec2Model ----
(***************************************************************************)
(* Model of src/auditor.py: the hashing auditor (run_audit), its SQLite    *)
(* record store (init_db) and the duplicate analysis (find_duplicates).    *)
(*                                                                         *)
(* Paths are sequences of one-character strings, so that the string        *)
(* operations of the code (LIKE 'target%', "/Archive/" in path, lower(),   *)
(* os.path.splitext) are computed as the code computes them.               *)
(***************************************************************************)
EXTENDS Integers, Sequences, FiniteSets, TLC

VARIABLES
    fs,            \* the file system: path -> file (environment)
    CONFIG,        \* auditor.CONFIG, loaded once at import
    clock,         \* wall clock, seconds
    dbExists,      \* DB_FILE exists and holds table file_hashes
    db,            \* rows of table file_hashes
    nextId,        \* AUTOINCREMENT sequence of file_hashes.id
    pc,            \* position of the running command: idle (none runs),
                   \* aborted | walk | done (run_audit), reported (find_duplicates)
    target_dir,    \* argument of the running command
    force_rehash,  \* argument of the running run_audit
    current_time,  \* run_audit's local current_time
    todo,          \* files of os.walk(target_dir) not yet visited
    stats,         \* run_audit's local stats
    outcome,       \* branch run_audit took for each scanned file of the run
    bitrot_list,   \* run_audit's local bitrot_list
    report,        \* result, total_wasted_space, duplicate_count of find_duplicates
    known,         \* find_duplicates' local known_dupes_map
    runs,          \* commands issued so far in the behaviour
    fsOps,         \* file system changes so far
    lastAudit,     \* history: the root of the last completed audit, if it had no
                   \* error and the file system has not changed since
    repeat,        \* history: the running audit repeats an error-free audit of
                   \* the same root with no file system change in between
    start_db,      \* history: the rows of file_hashes when the running audit began
    call           \* a call of should_exclude made on its own: argument and result

vars == <<fs, CONFIG, clock, dbExists, db, nextId, pc, target_dir,
          force_rehash, current_time, todo, stats, outcome, bitrot_list,
          report, known, runs, fsOps, lastAudit, repeat, start_db, call>>

----------------------------------------------------------------------------
(* Bounds of the model *)

MaxFsOps == 2
MaxRuns == 2
MaxMtime == 2

(* Program constants *)

\* the grace window of the reconciliation query, current_time - 3600
Grace == 3600

----------------------------------------------------------------------------
(* Strings *)

IsPrefix(s, t) ==
    /\ Len(s) <= Len(t)
    /\ \A i \in 1..Len(s) : t[i] = s[i]

\* Python's  sub in s
Contains(sub, s) ==
    \E k \in 0..(Len(s) - Len(sub)) :
        \A i \in 1..Len(sub) : s[k + i] = sub[i]

\* str.lower() on the characters the model uses
LowerChar(ch) ==
    CASE ch = "A" -> "a"
      [] ch = "B" -> "b"
      [] ch = "D" -> "d"
      [] ch = "J" -> "j"
      [] OTHER -> ch

lower(s) == [i \in 1..Len(s) |-> LowerChar(s[i])]

\* index of the last "/" of a path, 0 when there is none
LastSlash(p) ==
    LET idx == {i \in 1..Len(p) : p[i] = "/"}
    IN  IF idx = {} THEN 0 ELSE CHOOSE i \in idx : \A j \in idx : j <= i

\* os.path.basename: the `file` of os.walk for the joined path
basename(p) == SubSeq(p, LastSlash(p) + 1, Len(p))

\* os.path.dirname: the `root` of os.walk for the joined path
dirname(p) == SubSeq(p, 1, LastSlash(p) - 1)

\* os.path.splitext(p)[1]: from the last dot of the last component, unless
\* only dots precede it there
splitext(p) ==
    LET b == basename(p)
        dots == {i \in 1..Len(b) : b[i] = "."}
        last == IF dots = {} THEN 0 ELSE CHOOSE i \in dots : \A j \in dots : j <= i
    IN  IF last = 0 \/ (\A i \in 1..(last - 1) : b[i] = ".")
        THEN <<>>
        ELSE SubSeq(b, last, Len(b))

InSeq(x, s) == \E i \in 1..Len(s) : s[i] = x

Max(S) == CHOOSE x \in S : \A y \in S : y <= x

----------------------------------------------------------------------------
(* The file system the auditor runs on *)

PA == <<"/", "d", "/", "a">>
PB == <<"/", "d", "/", "b">>
PArc == <<"/", "d", "/", "A", "r", "c", "h", "i", "v", "e", "/", "a">>
PSib == <<"/", "d", "d", "/", "a">>

FilePaths == {PA, PB, PArc, PSib}

DirRoot == <<"/">>
DirD == <<"/", "d">>
DirArc == <<"/", "d", "/", "A", "r", "c", "h", "i", "v", "e">>
DirDD == <<"/", "d", "d">>
DirNone == <<"/", "n">>

\* directories that exist (they are never created or removed)
Dirs == {DirRoot, DirD, DirArc, DirDD}

\* what a command may be given as its target: two directories, a path that
\* does not exist, a path that is a file or does not exist
Targets == {DirRoot, DirD, DirNone, PA}

\* file contents; two of them have the same length
Contents == {"c1", "c2", "c3"}

\* st_size of a file holding the content
SizeOf(c) == IF c = "c3" THEN 2 ELSE 1

\* hashlib.sha256(content).hexdigest(): injective on Contents
Digest(c) ==
    CASE c = "c1" -> "h1"
      [] c = "c2" -> "h2"
      [] c = "c3" -> "h3"

Hashes == {Digest(c) : c \in Contents}

None == "None"

Absent == [exists |-> FALSE, content |-> "c1", mtime |-> 0, readable |-> FALSE]

File(c, m, r) == [exists |-> TRUE, content |-> c, mtime |-> m, readable |-> r]

os_path_isdir(p) == p \in Dirs

os_path_exists(p) == (p \in FilePaths /\ fs[p].exists) \/ p \in Dirs

\* os.path.join(root, ""): the prefix of every path below the directory
WithSep(dir) == IF dir[Len(dir)] = "/" THEN dir ELSE dir \o <<"/">>

\* the path lies in the directory or below it
InSubtree(dir, p) == IsPrefix(WithSep(dir), p)

\* the file paths os.walk(top) yields as os.path.join(root, file)
os_walk(top) == {p \in FilePaths : fs[p].exists /\ InSubtree(top, p)}

\* os.walk is top-down and depth-first: the files of a directory come
\* before the files of the directories below it, and a directory that was
\* entered is finished before another one is; the order of the entries
\* of one directory is the OS's
NextInWalk(top, left) ==
    LET visited == os_walk(top) \ left
    IN  {p \in left :
            /\ ~ \E q \in left : /\ dirname(q) # dirname(p)
                                  /\ InSubtree(dirname(q), p)
            /\ \A d \in Dirs :
                  (/\ \E v \in visited : InSubtree(d, v)
                   /\ \E q \in left : InSubtree(d, q)) => InSubtree(d, p)}

----------------------------------------------------------------------------
(* calculate_sha256, should_exclude *)

\* calculate_sha256 that reads past the IOError
calculate_sha256Unguarded(file_path) == Digest(fs[file_path].content)

calculate_sha256(file_path) ==
    IF fs[file_path].exists /\ fs[file_path].readable
    THEN Digest(fs[file_path].content)
    ELSE None

should_exclude(file_path) ==
    LET path_lower == lower(file_path)
        ext_filter == CONFIG.EXT_FILTER
    IN  IF \E i \in 1..Len(CONFIG.EXCLUSIONS) :
               Contains(lower(CONFIG.EXCLUSIONS[i]), path_lower)
        THEN TRUE
        ELSE IF ext_filter # <<>> /\ ~InSeq(lower(splitext(file_path)), ext_filter)
        THEN TRUE
        ELSE FALSE

\* the configurations the auditor is started with: one excludes nothing,
\* one excludes the paths that hold "/B" in any case, which PB does
Configs ==
    {[EXCLUSIONS |-> <<>>, EXT_FILTER |-> <<>>],
     [EXCLUSIONS |-> << <<"/", "B">> >>, EXT_FILTER |-> <<>>]}

----------------------------------------------------------------------------
(* The record store: table file_hashes *)

\* Row of an INSERT that leaves the column last_seen out
RowUnseen(id, file_path, file_size, mtime, sha256_hash, last_seen) ==
    [id |-> id, file_path |-> file_path, file_name |-> basename(file_path),
     file_size |-> file_size, mtime |-> mtime, sha256_hash |-> sha256_hash,
     last_seen |-> 0, status |-> "active"]

\* Row with the values of mtime and last_seen bound to each other's column
RowTimesSwapped(id, file_path, file_size, mtime, sha256_hash, last_seen) ==
    [id |-> id, file_path |-> file_path, file_name |-> basename(file_path),
     file_size |-> file_size, mtime |-> last_seen, sha256_hash |-> sha256_hash,
     last_seen |-> mtime, status |-> "active"]

Row(id, file_path, file_size, mtime, sha256_hash, last_seen) ==
    [id |-> id, file_path |-> file_path, file_name |-> basename(file_path),
     file_size |-> file_size, mtime |-> mtime, sha256_hash |-> sha256_hash,
     last_seen |-> last_seen, status |-> "active"]

\* file_path TEXT UNIQUE: a write that would give two rows one path raises
\* sqlite3.IntegrityError and changes nothing
UniqueViolation(rows, id, file_path) ==
    \E r \in rows : r.id # id /\ r.file_path = file_path

\* SELECT ... FROM file_hashes WHERE file_path = ?
SelectByPath(rows, file_path) == {r \in rows : r.file_path = file_path}

\* SelectByHashSize with AND status = 'active'
SelectByHashSizeActive(rows, sha256_hash, file_size) ==
    {r \in rows : /\ r.sha256_hash = sha256_hash
                  /\ r.file_size = file_size
                  /\ r.status = "active"}

\* SelectByHashSize that fetches one row, the first, in place of all
SelectByHashSizeFirst(rows, sha256_hash, file_size) ==
    LET all == {r \in rows : r.sha256_hash = sha256_hash /\ r.file_size = file_size}
    IN  {r \in all : \A q \in all : r.id <= q.id}

\* SELECT id, file_path FROM file_hashes WHERE sha256_hash = ? AND file_size = ?
SelectByHashSize(rows, sha256_hash, file_size) ==
    {r \in rows : r.sha256_hash = sha256_hash /\ r.file_size = file_size}

\* file_path LIKE 'target_dir%': LIKE compares ASCII letters without case;
\* the targets of the model hold no % or _
Like(target, file_path) == IsPrefix(lower(target), lower(file_path))

NoStats ==
    [scanned |-> 0, skipped_unchanged |-> 0, new_files |-> 0,
     modified_files |-> 0, moved_files |-> 0, bitrot_detected |-> 0,
     removed_files |-> 0, errors |-> 0]

NoOutcome == [p \in FilePaths |-> "-"]

NoReport == [result |-> {}, total_wasted_space |-> 0, duplicate_count |-> 0]

\* no call of should_exclude on its own was made
NoCall == [file_path |-> <<>>, ret |-> FALSE]

----------------------------------------------------------------------------
(* run_audit: the body of the loop for one file that is not excluded *)

\* ClassifyKnown that does not look at force_rehash
ClassifyKnownIgnoresForce(file_path, row) ==
    LET file_size == SizeOf(fs[file_path].content)
        mtime == fs[file_path].mtime
        new_hash == calculate_sha256(file_path)
    IN  IF row.file_size = file_size /\ row.mtime = mtime
        THEN [db |-> (db \ {row}) \cup
                     {[row EXCEPT !.last_seen = current_time, !.status = "active"]},
              nextId |-> nextId, key |-> "skipped_unchanged", bitrot |-> FALSE]
        ELSE IF new_hash = None
        THEN [db |-> db, nextId |-> nextId, key |-> "errors", bitrot |-> FALSE]
        ELSE [db |-> (db \ {row}) \cup
                     {[row EXCEPT !.file_size = file_size,
                                  !.mtime = mtime,
                                  !.sha256_hash = new_hash,
                                  !.last_seen = current_time,
                                  !.status = "active"]},
              nextId |-> nextId, key |-> "modified_files", bitrot |-> FALSE]

\* ClassifyKnown that takes any change of the hash for bit-rot
ClassifyKnownHashOnly(file_path, row) ==
    LET file_size == SizeOf(fs[file_path].content)
        mtime == fs[file_path].mtime
        new_hash == calculate_sha256(file_path)
    IN  IF ~force_rehash /\ row.file_size = file_size /\ row.mtime = mtime
        THEN [db |-> (db \ {row}) \cup
                     {[row EXCEPT !.last_seen = current_time, !.status = "active"]},
              nextId |-> nextId, key |-> "skipped_unchanged", bitrot |-> FALSE]
        ELSE IF new_hash = None
        THEN [db |-> db, nextId |-> nextId, key |-> "errors", bitrot |-> FALSE]
        ELSE IF new_hash # row.sha256_hash
        THEN [db |-> (db \ {row}) \cup
                     {[row EXCEPT !.sha256_hash = new_hash,
                                  !.last_seen = current_time,
                                  !.status = "corrupted"]},
              nextId |-> nextId, key |-> "bitrot_detected", bitrot |-> TRUE]
        ELSE [db |-> (db \ {row}) \cup
                     {[row EXCEPT !.file_size = file_size,
                                  !.mtime = mtime,
                                  !.sha256_hash = new_hash,
                                  !.last_seen = current_time,
                                  !.status = "active"]},
              nextId |-> nextId, key |-> "modified_files", bitrot |-> FALSE]

\* ClassifyKnown without the untouched-file branch: it hashes every file
ClassifyKnownRehashes(file_path, row) ==
    LET file_size == SizeOf(fs[file_path].content)
        mtime == fs[file_path].mtime
        new_hash == calculate_sha256(file_path)
    IN  IF new_hash = None
        THEN [db |-> db, nextId |-> nextId, key |-> "errors", bitrot |-> FALSE]
        ELSE IF /\ ~force_rehash
                /\ row.file_size = file_size
                /\ row.mtime = mtime
                /\ new_hash # row.sha256_hash
        THEN [db |-> (db \ {row}) \cup
                     {[row EXCEPT !.sha256_hash = new_hash,
                                  !.last_seen = current_time,
                                  !.status = "corrupted"]},
              nextId |-> nextId, key |-> "bitrot_detected", bitrot |-> TRUE]
        ELSE [db |-> (db \ {row}) \cup
                     {[row EXCEPT !.file_size = file_size,
                                  !.mtime = mtime,
                                  !.sha256_hash = new_hash,
                                  !.last_seen = current_time,
                                  !.status = "active"]},
              nextId |-> nextId, key |-> "modified_files", bitrot |-> FALSE]

\* the row is at this path already
ClassifyKnown(file_path, row) ==
    LET file_size == SizeOf(fs[file_path].content)
        mtime == fs[file_path].mtime
        new_hash == calculate_sha256(file_path)
    IN  IF ~force_rehash /\ row.file_size = file_size /\ row.mtime = mtime
        THEN [db |-> (db \ {row}) \cup
                     {[row EXCEPT !.last_seen = current_time, !.status = "active"]},
              nextId |-> nextId, key |-> "skipped_unchanged", bitrot |-> FALSE]
        ELSE IF new_hash = None
        THEN [db |-> db, nextId |-> nextId, key |-> "errors", bitrot |-> FALSE]
        ELSE IF /\ ~force_rehash
                /\ row.file_size = file_size
                /\ row.mtime = mtime
                /\ new_hash # row.sha256_hash
        THEN [db |-> (db \ {row}) \cup
                     {[row EXCEPT !.sha256_hash = new_hash,
                                  !.last_seen = current_time,
                                  !.status = "corrupted"]},
              nextId |-> nextId, key |-> "bitrot_detected", bitrot |-> TRUE]
        ELSE [db |-> (db \ {row}) \cup
                     {[row EXCEPT !.file_size = file_size,
                                  !.mtime = mtime,
                                  !.sha256_hash = new_hash,
                                  !.last_seen = current_time,
                                  !.status = "active"]},
              nextId |-> nextId, key |-> "modified_files", bitrot |-> FALSE]

\* Vacated with the test of the path negated
VacatedNegated(move_candidates) ==
    {mc \in move_candidates : os_path_exists(mc.file_path)}

\* Vacated without the test of the path
VacatedUntested(move_candidates) == move_candidates

\* the rows of move_candidates whose path is not on disk; the loop takes
\* the first of them in fetch order, which is the order of id
Vacated(move_candidates) ==
    {mc \in move_candidates : ~os_path_exists(mc.file_path)}

\* ClassifyUnknown without the test of the hash
ClassifyUnknownUnchecked(file_path) ==
    LET file_size == SizeOf(fs[file_path].content)
        mtime == fs[file_path].mtime
        new_hash == calculate_sha256(file_path)
        move_candidates == SelectByHashSize(db, new_hash, file_size)
        vacated == Vacated(move_candidates)
    IN  IF vacated # {}
        THEN LET mc == CHOOSE r \in vacated : \A q \in vacated : r.id <= q.id
             IN  IF UniqueViolation(db, mc.id, file_path)
                 THEN [db |-> db, nextId |-> nextId, key |-> "errors",
                       bitrot |-> FALSE]
                 ELSE [db |-> (db \ {mc}) \cup
                              {[mc EXCEPT !.file_path = file_path,
                                          !.file_name = basename(file_path),
                                          !.mtime = mtime,
                                          !.last_seen = current_time,
                                          !.status = "active"]},
                       nextId |-> nextId, key |-> "moved_files", bitrot |-> FALSE]
        ELSE IF UniqueViolation(db, nextId, file_path)
        THEN [db |-> db, nextId |-> nextId, key |-> "errors", bitrot |-> FALSE]
        ELSE [db |-> db \cup
                     {Row(nextId, file_path, file_size, mtime, new_hash, current_time)},
              nextId |-> nextId + 1, key |-> "new_files", bitrot |-> FALSE]

\* no row is at this path
ClassifyUnknown(file_path) ==
    LET file_size == SizeOf(fs[file_path].content)
        mtime == fs[file_path].mtime
        new_hash == calculate_sha256(file_path)
        move_candidates == SelectByHashSize(db, new_hash, file_size)
        vacated == Vacated(move_candidates)
    IN  IF new_hash = None
        THEN [db |-> db, nextId |-> nextId, key |-> "errors", bitrot |-> FALSE]
        ELSE IF vacated # {}
        THEN LET mc == CHOOSE r \in vacated : \A q \in vacated : r.id <= q.id
             IN  IF UniqueViolation(db, mc.id, file_path)
                 THEN [db |-> db, nextId |-> nextId, key |-> "errors",
                       bitrot |-> FALSE]
                 ELSE [db |-> (db \ {mc}) \cup
                              {[mc EXCEPT !.file_path = file_path,
                                          !.file_name = basename(file_path),
                                          !.mtime = mtime,
                                          !.last_seen = current_time,
                                          !.status = "active"]},
                       nextId |-> nextId, key |-> "moved_files", bitrot |-> FALSE]
        ELSE IF UniqueViolation(db, nextId, file_path)
        THEN [db |-> db, nextId |-> nextId, key |-> "errors", bitrot |-> FALSE]
        ELSE [db |-> db \cup
                     {Row(nextId, file_path, file_size, mtime, new_hash, current_time)},
              nextId |-> nextId + 1, key |-> "new_files", bitrot |-> FALSE]

\* ClassifyFile that looks no path up and writes past the UNIQUE index
ClassifyFileInsertOnly(file_path) ==
    IF calculate_sha256(file_path) = None
    THEN [db |-> db, nextId |-> nextId, key |-> "errors", bitrot |-> FALSE]
    ELSE [db |-> db \cup
                 {Row(nextId, file_path, SizeOf(fs[file_path].content),
                      fs[file_path].mtime, calculate_sha256(file_path),
                      current_time)},
          nextId |-> nextId + 1, key |-> "new_files", bitrot |-> FALSE]

ClassifyFile(file_path) ==
    LET rows == SelectByPath(db, file_path)
    IN  IF rows # {}
        THEN ClassifyKnown(file_path, CHOOSE r \in rows : TRUE)
        ELSE ClassifyUnknown(file_path)

----------------------------------------------------------------------------
(* run_audit: the reconciliation after the walk *)

\* SELECT file_path ... WHERE file_path LIKE ? AND last_seen < ? AND status = 'active'
missing_files(rows) ==
    {r.file_path : r \in {x \in rows : /\ Like(target_dir, x.file_path)
                                       /\ x.last_seen < current_time - Grace
                                       /\ x.status = "active"}}

\* Gone with the test of the path negated
GoneOnDisk(rows) == {mf \in missing_files(rows) : os_path_exists(mf)}

\* the paths of missing_files that are not on disk
Gone(rows) == {mf \in missing_files(rows) : ~os_path_exists(mf)}

\* MarkMissing that deletes the rows
MarkMissingDeletes(rows, paths) == {r \in rows : r.file_path \notin paths}

\* UPDATE file_hashes SET status = 'missing' WHERE file_path = ?
MarkMissing(rows, paths) ==
    {IF r.file_path \in paths THEN [r EXCEPT !.status = "missing"] ELSE r :
        r \in rows}

\* BetweenFiles with the reconciliation inside the loop
BetweenFilesReconciles(rows) == MarkMissing(rows, Gone(rows))

\* what the loop of the walk does to the rows between two files: nothing
BetweenFiles(rows) == rows

----------------------------------------------------------------------------
(* find_duplicates *)

\* the marker of the paths that hold redundant copies by design
ArchiveMarker == <<"/", "A", "r", "c", "h", "i", "v", "e", "/">>

\* the parsed known-duplicates file: a list of items with 'hash' and 'files';
\* no file, or one that does not parse, is the empty list
KnownInputs ==
    {<<>>,
     <<[hash |-> "h1", files |-> {PA}]>>,
     <<[hash |-> "h1", files |-> {PA, PB}]>>,
     <<[hash |-> "h1", files |-> {PA}], [hash |-> "h1", files |-> {PA, PB, PSib}]>>}

\* known_dupes_map[item['hash']] = set(item['files']), a later item of the
\* list replacing an earlier one of the same hash
known_dupes_map(known_data) ==
    [h \in {known_data[i].hash : i \in 1..Len(known_data)} |->
        known_data[Max({i \in 1..Len(known_data) : known_data[i].hash = h})].files]

\* SELECT sha256_hash, COUNT(*) ... GROUP BY sha256_hash HAVING c > 1
duplicate_hashes(rows, target) ==
    {h \in {r.sha256_hash : r \in rows} :
        Cardinality({r \in rows : /\ Like(target, r.file_path)
                                  /\ r.status = "active"
                                  /\ r.sha256_hash = h}) > 1}

\* the rows of one hash, less the Archive directory hits
active_files(rows, target, d_hash) ==
    {r \in rows : /\ r.sha256_hash = d_hash
                  /\ r.status = "active"
                  /\ Like(target, r.file_path)
                  /\ ~Contains(ArchiveMarker, r.file_path)}

active_paths_set(rows, target, d_hash) ==
    {r.file_path : r \in active_files(rows, target, d_hash)}

\* ReportedHashes with the subset test of the known paths turned round
ReportedHashesSuperset(rows, target, known_map) ==
    {h \in duplicate_hashes(rows, target) :
        /\ ~(/\ h \in DOMAIN known_map
             /\ known_map[h] \subseteq active_paths_set(rows, target, h))
        /\ Cardinality(active_files(rows, target, h)) > 1}

\* the hashes of duplicate_hashes the loop does not skip and reports
ReportedHashes(rows, target, known_map) ==
    {h \in duplicate_hashes(rows, target) :
        /\ ~(/\ h \in DOMAIN known_map
             /\ active_paths_set(rows, target, h) \subseteq known_map[h])
        /\ Cardinality(active_files(rows, target, h)) > 1}

\* file_size = active_files[0][1], the size of the first row fetched
GroupSize(rows, target, d_hash) ==
    (CHOOSE r \in active_files(rows, target, d_hash) : TRUE).file_size

RECURSIVE SumOver(_, _, _, _)
\* the sum of size * (count - 1), or of count - 1, over the hashes
SumOver(hs, rows, target, weighted) ==
    IF hs = {} THEN 0
    ELSE LET h == CHOOSE x \in hs : TRUE
             n == Cardinality(active_files(rows, target, h)) - 1
         IN  (IF weighted THEN GroupSize(rows, target, h) * n ELSE n)
             + SumOver(hs \ {h}, rows, target, weighted)

DuplicateReport(rows, target, known_map) ==
    LET hs == ReportedHashes(rows, target, known_map)
    IN  [result |-> {[hash |-> h,
                      size_bytes |-> GroupSize(rows, target, h),
                      files |-> active_paths_set(rows, target, h)] : h \in hs},
         total_wasted_space |-> SumOver(hs, rows, target, TRUE),
         duplicate_count |-> SumOver(hs, rows, target, FALSE)]

----------------------------------------------------------------------------
(* The commands *)

\* the file systems a first command may find: these files, each readable
InitTrees == {{}, {PA, PArc}}

Init ==
    /\ fs \in {[p \in FilePaths |->
                   IF p \in S THEN File("c1", 1, TRUE) ELSE Absent] :
               S \in InitTrees}
    /\ CONFIG \in Configs
    /\ clock = 0
    /\ dbExists = FALSE
    /\ db = {}
    /\ nextId = 1
    /\ pc = "idle"
    /\ target_dir = <<>>
    /\ force_rehash = FALSE
    /\ current_time = 0
    /\ todo = {}
    /\ stats = NoStats
    /\ outcome = NoOutcome
    /\ bitrot_list = <<>>
    /\ report = NoReport
    /\ known = <<>>
    /\ runs = 0
    /\ fsOps = 0
    /\ lastAudit = {}
    /\ repeat = FALSE
    /\ start_db = {}
    /\ call = NoCall

\* run_audit on a target that is no directory: logs the error and returns
RunAuditNoDir ==
    /\ pc = "idle"
    /\ runs < MaxRuns
    /\ \E t \in Targets :
        /\ ~os_path_isdir(t)
        /\ target_dir' = t
    /\ pc' = "aborted"
    /\ runs' = runs + 1
    /\ UNCHANGED <<fs, CONFIG, call, clock, dbExists, db, nextId, force_rehash,
                   current_time, todo, stats, outcome, bitrot_list, report, known,
                   fsOps, lastAudit, repeat, start_db>>

\* the seconds that passed since the last command; with no row stored no
\* stored time is compared, and one choice stands for all
Gaps == IF db = {} THEN {1} ELSE {1, Grace + 1}

\* run_audit up to the walk: init_db, current_time, stats, bitrot_list
RunAuditBegin ==
    /\ pc = "idle"
    /\ runs < MaxRuns
    /\ \E t \in Targets, f \in BOOLEAN, gap \in Gaps :
        /\ os_path_isdir(t)
        /\ target_dir' = t
        /\ force_rehash' = f
        /\ clock' = clock + gap
        /\ current_time' = clock + gap
        /\ todo' = os_walk(t)
        /\ repeat' = (t \in lastAudit)
    /\ start_db' = db
    /\ dbExists' = TRUE
    /\ stats' = NoStats
    /\ outcome' = NoOutcome
    /\ bitrot_list' = <<>>
    /\ pc' = "walk"
    /\ runs' = runs + 1
    /\ UNCHANGED <<fs, CONFIG, call, db, nextId, report, known, fsOps, lastAudit>>

\* ProcessFile that counts the file as scanned before it tests the exclusion
ProcessFileCountsExcluded ==
    /\ pc = "walk"
    /\ todo # {}
    /\ \E file_path \in NextInWalk(target_dir, todo) :
        /\ todo' = todo \ {file_path}
        /\ IF should_exclude(file_path)
           THEN /\ stats' = [stats EXCEPT !.scanned = @ + 1]
                /\ UNCHANGED <<db, nextId, outcome, bitrot_list>>
           ELSE LET res == ClassifyFile(file_path)
                IN  /\ db' = BetweenFiles(res.db)
                    /\ nextId' = res.nextId
                    /\ stats' = [stats EXCEPT !.scanned = @ + 1,
                                              ![res.key] = @ + 1]
                    /\ outcome' = [outcome EXCEPT ![file_path] = res.key]
                    /\ bitrot_list' = IF res.bitrot
                                      THEN Append(bitrot_list, file_path)
                                      ELSE bitrot_list
    /\ UNCHANGED <<fs, CONFIG, call, clock, dbExists, pc, target_dir, force_rehash,
                   current_time, report, known, runs, fsOps, lastAudit, repeat, start_db>>

\* one turn of the loop over the files of the walk
ProcessFile ==
    /\ pc = "walk"
    /\ todo # {}
    /\ \E file_path \in NextInWalk(target_dir, todo) :
        /\ todo' = todo \ {file_path}
        /\ IF should_exclude(file_path)
           THEN UNCHANGED <<db, nextId, stats, outcome, bitrot_list>>
           ELSE LET res == ClassifyFile(file_path)
                IN  /\ db' = BetweenFiles(res.db)
                    /\ nextId' = res.nextId
                    /\ stats' = [stats EXCEPT !.scanned = @ + 1,
                                              ![res.key] = @ + 1]
                    /\ outcome' = [outcome EXCEPT ![file_path] = res.key]
                    /\ bitrot_list' = IF res.bitrot
                                      THEN Append(bitrot_list, file_path)
                                      ELSE bitrot_list
    /\ UNCHANGED <<fs, CONFIG, call, clock, dbExists, pc, target_dir, force_rehash,
                   current_time, report, known, runs, fsOps, lastAudit, repeat, start_db>>

\* after the walk: the reconciliation, commit, close and the summary
Reconcile ==
    /\ pc = "walk"
    /\ todo = {}
    /\ db' = MarkMissing(db, Gone(db))
    /\ stats' = [stats EXCEPT !.removed_files = @ + Cardinality(Gone(db))]
    /\ pc' = "done"
    /\ UNCHANGED <<fs, CONFIG, call, clock, dbExists, nextId, target_dir,
                   force_rehash, current_time, todo, outcome, bitrot_list,
                   report, known, runs, fsOps, lastAudit, repeat, start_db>>

\* find_duplicates: it does not look at the target on disk; init_db makes
\* the store if there is none
FindDuplicates ==
    /\ pc = "idle"
    /\ runs < MaxRuns
    /\ \E t \in Targets, known_data \in KnownInputs :
        /\ target_dir' = t
        /\ known' = known_dupes_map(known_data)
        /\ report' = DuplicateReport(db, t, known_dupes_map(known_data))
    /\ dbExists' = TRUE
    /\ pc' = "reported"
    /\ runs' = runs + 1
    /\ UNCHANGED <<fs, CONFIG, call, clock, db, nextId, force_rehash, current_time,
                   todo, stats, outcome, bitrot_list, fsOps, lastAudit, repeat, start_db>>

\* the command returns: its arguments and locals are gone
Return ==
    /\ pc \in {"aborted", "done", "reported"}
    /\ pc' = "idle"
    /\ lastAudit' = IF pc = "done"
                    THEN (IF stats.errors = 0 THEN {target_dir} ELSE {})
                    ELSE lastAudit
    /\ target_dir' = <<>>
    /\ force_rehash' = FALSE
    /\ current_time' = 0
    /\ todo' = {}
    /\ stats' = NoStats
    /\ outcome' = NoOutcome
    /\ bitrot_list' = <<>>
    /\ report' = NoReport
    /\ known' = <<>>
    /\ repeat' = FALSE
    /\ start_db' = {}
    /\ UNCHANGED <<fs, CONFIG, call, clock, dbExists, db, nextId, runs, fsOps>>

----------------------------------------------------------------------------
(* The environment: the file system changes between commands *)

FsStep(newfs) ==
    /\ pc = "idle"
    /\ fsOps < MaxFsOps
    /\ fs' = newfs
    /\ fsOps' = fsOps + 1
    /\ lastAudit' = {}
    /\ UNCHANGED <<CONFIG, call, clock, dbExists, db, nextId, pc, target_dir,
                   force_rehash, current_time, todo, stats, outcome,
                   bitrot_list, report, known, runs, repeat, start_db>>

\* a file is created, or written with its modified-time set
WriteFile ==
    \E p \in FilePaths, c \in Contents, m \in 1..MaxMtime :
        /\ ~fs[p].exists \/ fs[p].content # c \/ fs[p].mtime # m
        /\ FsStep([fs EXCEPT ![p] =
                      File(c, m, IF fs[p].exists THEN fs[p].readable ELSE TRUE)])

DeleteFile ==
    \E p \in FilePaths :
        /\ fs[p].exists
        /\ FsStep([fs EXCEPT ![p] = Absent])

RenameFile ==
    \E p \in FilePaths, q \in FilePaths :
        /\ fs[p].exists
        /\ ~fs[q].exists
        /\ FsStep([fs EXCEPT ![p] = Absent, ![q] = fs[p]])

\* the file's permission to read it is taken or given back
Chmod ==
    \E p \in FilePaths :
        /\ fs[p].exists
        /\ FsStep([fs EXCEPT ![p].readable = ~@])

Next ==
    \/ RunAuditNoDir
    \/ RunAuditBegin
    \/ ProcessFile
    \/ Reconcile
    \/ FindDuplicates
    \/ Return
    \/ WriteFile
    \/ DeleteFile
    \/ RenameFile
    \/ Chmod

Spec == Init /\ [][Next]_vars

----------------------------------------------------------------------------
(* The commands that follow a first audit *)

\* the store and the clock after run_audit("/") has recorded the two files
\* of the tree {PA, PArc}, in the order of the walk, and has returned; the
\* commands and file system changes counted are those that follow
InitLong ==
    /\ fs = [p \in FilePaths |->
                IF p \in {PA, PArc} THEN File("c1", 1, TRUE) ELSE Absent]
    /\ CONFIG = [EXCLUSIONS |-> <<>>, EXT_FILTER |-> <<>>]
    /\ clock = 1
    /\ dbExists = TRUE
    /\ db = {Row(1, PA, SizeOf("c1"), 1, Digest("c1"), 1),
             Row(2, PArc, SizeOf("c1"), 1, Digest("c1"), 1)}
    /\ nextId = 3
    /\ pc = "idle"
    /\ target_dir = <<>>
    /\ force_rehash = FALSE
    /\ current_time = 0
    /\ todo = {}
    /\ stats = NoStats
    /\ outcome = NoOutcome
    /\ bitrot_list = <<>>
    /\ report = NoReport
    /\ known = <<>>
    /\ runs = 0
    /\ fsOps = 0
    /\ lastAudit = {DirRoot}
    /\ repeat = FALSE
    /\ start_db = {}
    /\ call = NoCall

SpecLong == InitLong /\ [][Next]_vars

----------------------------------------------------------------------------
(* should_exclude called on its own, under any configuration *)

\* paths with and without an extension, in both cases, a dot file, a
\* directory with a dot, paths that hold "/b" in either case
ExcludePaths ==
    {<<"/", "d", "/", "a", ".", "j">>,
     <<"/", "d", "/", "a", ".", "J">>,
     <<"/", "d", "/", "a", ".", "b">>,
     <<"/", "d", "/", "a">>,
     <<"/", "d", "/", ".", "j">>,
     <<"/", "d", ".", "j", "/", "a">>,
     <<"/", "B", "/", "a", ".", "j">>,
     <<"/", "b", "/", "a", ".", "J">>}

\* values of CONFIG['EXCLUSIONS']
ExclusionLists ==
    {<<>>,
     << <<"/", "B">> >>,
     << <<"/", "b">> >>,
     << <<"/", "x">>, <<"/", "B">> >>}

\* values of CONFIG['EXT_FILTER']
ExtFilters ==
    {<<>>,
     << <<".", "j">> >>,
     << <<".", "J">> >>,
     << <<".", "b">>, <<".", "j">> >>}

ExcludeConfigs ==
    {[EXCLUSIONS |-> e, EXT_FILTER |-> x] : e \in ExclusionLists, x \in ExtFilters}

\* the module is imported with a configuration; no command has run
InitExclude ==
    /\ fs = [p \in FilePaths |-> Absent]
    /\ CONFIG \in ExcludeConfigs
    /\ clock = 0
    /\ dbExists = FALSE
    /\ db = {}
    /\ nextId = 1
    /\ pc = "idle"
    /\ target_dir = <<>>
    /\ force_rehash = FALSE
    /\ current_time = 0
    /\ todo = {}
    /\ stats = NoStats
    /\ outcome = NoOutcome
    /\ bitrot_list = <<>>
    /\ report = NoReport
    /\ known = <<>>
    /\ runs = 0
    /\ fsOps = 0
    /\ lastAudit = {}
    /\ repeat = FALSE
    /\ start_db = {}
    /\ call = NoCall

CallShouldExclude ==
    /\ \E file_path \in ExcludePaths :
        call' = [file_path |-> file_path, ret |-> should_exclude(file_path)]
    /\ UNCHANGED <<fs, CONFIG, clock, dbExists, db, nextId, pc, target_dir,
                   force_rehash, current_time, todo, stats, outcome,
                   bitrot_list, report, known, runs, fsOps, lastAudit, repeat,
                   start_db>>

NextExclude == CallShouldExclude

SpecExclude == InitExclude /\ [][NextExclude]_vars

----------------------------------------------------------------------------
(* Properties *)

\* this step of the walk visits the file
Visits(p) == pc = "walk" /\ p \in todo /\ p \notin todo'

\* the file is scanned when visited: not excluded
Scanned(p) == ~should_exclude(p)

\* a row is at the path, with the size and modified-time of the file on
\* disk and another hash than the file's content has
StaleHash(p) ==
    \E r \in db : /\ r.file_path = p
                  /\ r.file_size = SizeOf(fs[p].content)
                  /\ r.mtime = fs[p].mtime
                  /\ r.sha256_hash # Digest(fs[p].content)

\* C1: a file with a row of its size and modified-time but another hash is
\* classified BitRot by a forced run (counter raised, the row given the new
\* hash and status corrupted) and Unchanged by a run that does not force.
C1_BitRotUnderForceOnly ==
    [][\A p \in FilePaths :
        (Visits(p) /\ Scanned(p) /\ StaleHash(p)) =>
            /\ (force_rehash /\ fs[p].readable) =>
                  /\ outcome'[p] = "bitrot_detected"
                  /\ stats'.bitrot_detected = stats.bitrot_detected + 1
                  /\ \E r \in db' : /\ r.file_path = p
                                    /\ r.sha256_hash = Digest(fs[p].content)
                                    /\ r.status = "corrupted"
            /\ ~force_rehash => outcome'[p] = "skipped_unchanged"]_vars

\* C2: an audit that repeats an error-free audit of the same root, with no
\* change of the file system in between and without forcing, ends with no
\* New, Modified, Moved or BitRot and with scanned equal to unchanged.
C2_RepeatIsUnchanged ==
    (pc = "done" /\ repeat /\ ~force_rehash) =>
        /\ stats.new_files = 0
        /\ stats.modified_files = 0
        /\ stats.moved_files = 0
        /\ stats.bitrot_detected = 0
        /\ stats.scanned = stats.skipped_unchanged

C2_Witness ==
    /\ pc = "done"
    /\ repeat
    /\ ~force_rehash
    /\ stats.scanned >= 2

\* the row is the record of a file that was renamed to q: same bytes and
\* size, the row's path no longer on disk, q on disk with no row
RenamedTo(r, q) ==
    /\ r \in db
    /\ r.file_path # q
    /\ ~os_path_exists(r.file_path)
    /\ fs[q].exists
    /\ fs[q].readable
    /\ SelectByPath(db, q) = {}
    /\ r.sha256_hash = Digest(fs[q].content)
    /\ r.file_size = SizeOf(fs[q].content)

\* after the step: q is Moved, the row r is the one row at q, with its id,
\* hash and size; no row is at r's old path and no row was inserted
MovedOnto(r, q) ==
    /\ outcome'[q] = "moved_files"
    /\ \E n \in db' : /\ n.id = r.id
                      /\ n.file_path = q
                      /\ n.sha256_hash = r.sha256_hash
                      /\ n.file_size = r.file_size
    /\ Cardinality(SelectByPath(db', q)) = 1
    /\ SelectByPath(db', r.file_path) = {}
    /\ nextId' = nextId
    /\ Cardinality(db') = Cardinality(db)

OnlyVacated(r) ==
    \A x \in SelectByHashSize(db, r.sha256_hash, r.file_size) :
        ~os_path_exists(x.file_path) => x = r

OnlyPresentMatches(q) ==
    /\ fs[q].exists
    /\ fs[q].readable
    /\ SelectByPath(db, q) = {}
    /\ \A r \in SelectByHashSize(db, Digest(fs[q].content), SizeOf(fs[q].content)) :
          os_path_exists(r.file_path)

\* C4: a file at a path with no row, all rows of its hash and size having
\* paths on disk, is New: a row is inserted and no row is retargeted; and
\* a file is Moved only when a row of its hash and size has a path not on disk.
C4_CopyIsNew ==
    [][\A q \in FilePaths :
        (Visits(q) /\ Scanned(q)) =>
            /\ OnlyPresentMatches(q) =>
                  /\ outcome'[q] = "new_files"
                  /\ stats'.new_files = stats.new_files + 1
                  /\ db \subseteq db'
                  /\ \E n \in db' \ db :
                        /\ db' = db \cup {n}
                        /\ n.file_path = q
                        /\ n.id = nextId
            /\ outcome'[q] = "moved_files" =>
                  \E r \in SelectByHashSize(db, Digest(fs[q].content),
                                            SizeOf(fs[q].content)) :
                      ~os_path_exists(r.file_path)]_vars

C4_Witness ==
    /\ pc \in {"walk", "done"}
    /\ \E q \in FilePaths : \E n \in db, r \in db :
        /\ outcome[q] = "new_files"
        /\ n.file_path = q
        /\ r.id < n.id
        /\ r.sha256_hash = n.sha256_hash
        /\ r.file_size = n.file_size
        /\ os_path_exists(r.file_path)

\* C5: no two rows of the store have the same path.
C5_PathUnique ==
    \A r1 \in db, r2 \in db :
        (r1.file_path = r2.file_path \/ r1.id = r2.id) => r1 = r2

C5_Witness ==
    /\ pc = "done"
    /\ runs = MaxRuns
    /\ fsOps > 0
    /\ Cardinality(db) >= 3
    /\ stats.moved_files > 0

\* ids of the rows with status missing
MissingIds(rows) == {r.id : r \in {x \in rows : x.status = "missing"}}

\* C6: a step gives a row the status missing only if it is the
\* reconciliation, which runs when every file of the walk was visited.
C6_MissingOnlyAfterWalk ==
    [][MissingIds(db') \ MissingIds(db) # {} =>
          (pc = "walk" /\ todo = {} /\ pc' = "done")]_vars

C6_Witness ==
    /\ pc = "done"
    /\ stats.removed_files > 0
    /\ stats.scanned > 0
    /\ MissingIds(db) # {}

\* C7: no step removes a row: the ids of the store only grow, and the row
\* of a file that was deleted stays, with status missing.
C7_RowsNeverDeleted ==
    [][/\ {r.id : r \in db} \subseteq {r.id : r \in db'}
       /\ Cardinality(db') >= Cardinality(db)
       /\ nextId' >= nextId]_vars

C7_Witness ==
    /\ pc = "idle"
    /\ Cardinality(db) = nextId - 1
    /\ \E r \in db : r.status = "missing" /\ ~os_path_exists(r.file_path)

\* the paths of the active rows of the hash that hold no archival marker
\* and lie in the target directory or below it
SubtreeMembers(h) ==
    {r.file_path : r \in {x \in db : /\ x.status = "active"
                                      /\ x.sha256_hash = h
                                      /\ InSubtree(target_dir, x.file_path)
                                      /\ ~Contains(ArchiveMarker, x.file_path)}}

\* the paths of the active rows of the hash that hold no archival marker
\* and that the query of the target selects
GroupMembers(h) ==
    {r.file_path : r \in {x \in db : /\ x.status = "active"
                                      /\ x.sha256_hash = h
                                      /\ Like(target_dir, x.file_path)
                                      /\ ~Contains(ArchiveMarker, x.file_path)}}

\* the known-duplicates mapping accepts all the paths
Accepted(h, paths) == h \in DOMAIN known /\ paths \subseteq known[h]

RECURSIVE WastedSum(_)
\* size * (member count - 1), summed over the groups
WastedSum(groups) ==
    IF groups = {} THEN 0
    ELSE LET g == CHOOSE x \in groups : TRUE
         IN  g.size_bytes * (Cardinality(g.files) - 1) + WastedSum(groups \ {g})

\* C8 as stated: find_duplicates over a directory reports a group for a
\* hash exactly when more than one active row under the directory has it
\* and no archival marker (and the known duplicates do not accept them);
\* the group lists those paths, with their size, and the wasted space is
\* the sum of size * (count - 1).
C8_GroupsOfSubtree ==
    (pc = "reported" /\ os_path_isdir(target_dir)) =>
        /\ \A h \in Hashes :
             /\ (\E g \in report.result : g.hash = h)
                   <=> (/\ Cardinality(SubtreeMembers(h)) > 1
                        /\ ~Accepted(h, SubtreeMembers(h)))
             /\ \A g \in report.result :
                   g.hash = h =>
                      /\ g.files = SubtreeMembers(h)
                      /\ \A r \in db : r.file_path \in g.files =>
                                          r.file_size = g.size_bytes
        /\ report.total_wasted_space = WastedSum(report.result)

\* C9: a group whose paths the known duplicates accept for its hash is
\* left out of the report and of the wasted space; a group with a path
\* they do not accept is reported with all its paths.
C9_KnownDuplicatesSuppress ==
    pc = "reported" =>
        /\ \A h \in Hashes :
             /\ Accepted(h, GroupMembers(h)) =>
                   ~ \E g \in report.result : g.hash = h
             /\ (/\ Cardinality(GroupMembers(h)) > 1
                 /\ ~Accepted(h, GroupMembers(h))) =>
                   \E g \in report.result : /\ g.hash = h
                                            /\ g.files = GroupMembers(h)
        /\ report.total_wasted_space = WastedSum(report.result)
        /\ \A g \in report.result : ~Accepted(g.hash, g.files)

C9_Witness ==
    /\ pc = "reported"
    /\ \E h \in Hashes : /\ Cardinality(GroupMembers(h)) > 1
                         /\ Accepted(h, GroupMembers(h))
    /\ report.result = {}
    /\ report.total_wasted_space = 0

\* C10 as stated: a command whose target is no directory aborts and
\* leaves the store as it was, neither opened nor created.
C10_BadTargetLeavesStore ==
    [][(pc = "idle" /\ pc' # "idle" /\ ~os_path_isdir(target_dir')) =>
          /\ pc' = "aborted"
          /\ dbExists' = dbExists
          /\ db' = db
          /\ nextId' = nextId]_vars

\* the audit has to hash the file: no row is at its path, or the run is
\* forced, or the row's size or modified-time is not the file's
NeedsHash(p) ==
    \/ force_rehash
    \/ \A r \in SelectByPath(db, p) :
          r.file_size # SizeOf(fs[p].content) \/ r.mtime # fs[p].mtime

\* C11: a file whose hashing fails is skipped: errors rises by one, no row
\* is changed or inserted, the walk goes on with the files that are left,
\* and the reconciliation runs only when every file of the walk that is
\* not excluded has been classified.
C11_HashFailureSkipsFile ==
    [][/\ \A p \in FilePaths :
            (Visits(p) /\ Scanned(p) /\ NeedsHash(p) /\ ~fs[p].readable) =>
                /\ outcome'[p] = "errors"
                /\ stats'.errors = stats.errors + 1
                /\ stats'.scanned = stats.scanned + 1
                /\ db' = db
                /\ nextId' = nextId
                /\ todo' = todo \ {p}
                /\ pc' = "walk"
       /\ (pc = "walk" /\ pc' = "done") =>
            \A p \in os_walk(target_dir) : Scanned(p) => outcome[p] # "-"]_vars

C11_Witness ==
    /\ pc = "done"
    /\ stats.errors = 1
    /\ \E p \in FilePaths : /\ outcome[p] = "errors"
                             /\ SelectByPath(db, p) # {}
    /\ \E q \in FilePaths : outcome[q] \in {"new_files", "modified_files"}

\* the path holds one of the exclusion substrings, compared without case
HoldsExclusion(path) ==
    \E i \in 1..Len(CONFIG.EXCLUSIONS) :
        Contains(lower(CONFIG.EXCLUSIONS[i]), lower(path))

\* the path's extension is in the allow-list, compared without case
ExtensionAllowed(path) ==
    \E i \in 1..Len(CONFIG.EXT_FILTER) :
        lower(CONFIG.EXT_FILTER[i]) = lower(splitext(path))

\* C12 as stated: should_exclude(path) is True exactly when the path holds
\* an exclusion substring (without case), or the allow-list is not empty
\* and the path's extension (without case) is not in it.
C12_ExcludeRule ==
    call # NoCall =>
        (call.ret <=> \/ HoldsExclusion(call.file_path)
                      \/ /\ CONFIG.EXT_FILTER # <<>>
                         /\ ~ExtensionAllowed(call.file_path))

\* the step is the reconciliation of the running audit
Reconciles == pc = "walk" /\ pc' = "done"

\* the row as the step leaves it
After(r) == CHOOSE n \in db' : n.id = r.id

\* C13 as stated: the reconciliation changes the status of a row only if
\* the row was active, its path lies in the root directory or below it and
\* is not on disk, and the run did not observe it; rows outside the root's
\* subtree keep their status; no field but status changes.
C13_ReconcileOnlySubtree ==
    [][Reconciles =>
          /\ {r.id : r \in db'} = {r.id : r \in db}
          /\ \A r \in db :
                /\ [After(r) EXCEPT !.status = r.status] = r
                /\ After(r).status # r.status =>
                      /\ r.status = "active"
                      /\ InSubtree(target_dir, r.file_path)
                      /\ ~os_path_exists(r.file_path)
                      /\ r.last_seen # current_time
                      /\ outcome[r.file_path] = "-"
                /\ ~InSubtree(target_dir, r.file_path) =>
                      After(r).status = r.status]_vars

\* the row is active, at a path in the root directory or below it that is
\* not on disk, and was last seen more than the grace window before the run
StaleAndGone(r) ==
    /\ r.status = "active"
    /\ InSubtree(target_dir, r.file_path)
    /\ r.last_seen < current_time - Grace
    /\ ~os_path_exists(r.file_path)

\* C14: when the audit of a root completes, every row that was active, under
\* the root, last seen more than 3600 seconds before the run's start and
\* not on disk has status missing, and removed_files is the number of
\* rows the run marked missing.
C14_StaleGoneMarkedMissing ==
    [][Reconciles =>
          /\ \A r \in db : StaleAndGone(r) => After(r).status = "missing"
          /\ stats.removed_files = 0
          /\ stats'.removed_files =
                Cardinality(MissingIds(db') \ MissingIds(db))]_vars

C14_Witness ==
    /\ pc = "done"
    /\ stats.removed_files = 1
    /\ current_time > Grace
    /\ \E r \in db : /\ r.status = "missing"
                      /\ InSubtree(target_dir, r.file_path)
                      /\ r.last_seen < current_time - Grace
                      /\ ~os_path_exists(r.file_path)
    /\ \E r \in db : r.status = "active" /\ r.last_seen = current_time

\* the row at the path has the size and modified-time of the file on disk
SameSizeAndTime(r, p) ==
    /\ r.file_path = p
    /\ r.file_size = SizeOf(fs[p].content)
    /\ r.mtime = fs[p].mtime

\* C15: a run that does not force, on a file whose size and modified-time
\* are its row's, sets the row's last_seen to the run's start time and its
\* status to active, whatever the status was, and changes nothing else: it
\* does not read the file (an unreadable file is no error, a stale hash
\* stays) and touches no other row.
C15_UnchangedRefreshesOnly ==
    [][\A p \in FilePaths : \A r \in db :
        (Visits(p) /\ Scanned(p) /\ ~force_rehash /\ SameSizeAndTime(r, p)) =>
            /\ outcome'[p] = "skipped_unchanged"
            /\ stats' = [stats EXCEPT !.scanned = @ + 1,
                                      !.skipped_unchanged = @ + 1]
            /\ db' = (db \ {r}) \cup
                        {[r EXCEPT !.last_seen = current_time,
                                   !.status = "active"]}
            /\ nextId' = nextId]_vars

\* a row that was missing was seen again by the Unchanged step
C15_Witness ==
    /\ pc \in {"walk", "done"}
    /\ ~force_rehash
    /\ \E r \in db, o \in start_db :
        /\ outcome[r.file_path] = "skipped_unchanged"
        /\ o.status = "missing"
        /\ o.last_seen < current_time
        /\ r = [o EXCEPT !.last_seen = current_time, !.status = "active"]

\* C16: a run that does not force, on a file it can hash whose row has
\* another size or modified-time, classifies the file Modified: the row
\* gets the file's size, modified-time and hash, last_seen of the run's
\* start and status active, keeps its id and path, no other row changes,
\* and nothing is counted or listed as bit-rot.
C16_ChangedIsModified ==
    [][\A p \in FilePaths : \A r \in db :
        (/\ Visits(p) /\ Scanned(p) /\ ~force_rehash
         /\ r.file_path = p
         /\ ~SameSizeAndTime(r, p)
         /\ fs[p].readable) =>
            /\ outcome'[p] = "modified_files"
            /\ stats' = [stats EXCEPT !.scanned = @ + 1,
                                      !.modified_files = @ + 1]
            /\ bitrot_list' = bitrot_list
            /\ db' = (db \ {r}) \cup
                        {[id |-> r.id, file_path |-> r.file_path,
                          file_name |-> r.file_name,
                          file_size |-> SizeOf(fs[p].content),
                          mtime |-> fs[p].mtime,
                          sha256_hash |-> Digest(fs[p].content),
                          last_seen |-> current_time,
                          status |-> "active"]}
            /\ nextId' = nextId]_vars

\* a row got another size and another hash from a Modified file, beside a
\* row the run has not touched
C16_Witness ==
    /\ pc \in {"walk", "done"}
    /\ ~force_rehash
    /\ \E r \in db, o \in start_db :
        /\ outcome[r.file_path] = "modified_files"
        /\ o.id = r.id
        /\ o.file_path = r.file_path
        /\ o.file_size # r.file_size
        /\ o.sha256_hash # r.sha256_hash
        /\ r.last_seen = current_time
    /\ \E x \in db : x \in start_db

Least(a, b) == IF a <= b THEN a ELSE b

\* the files of the walk with this content that the run hashes and that
\* had no row at their path when the run began
Unrecorded(c) ==
    {p \in os_walk(target_dir) : /\ Scanned(p)
                                 /\ fs[p].readable
                                 /\ fs[p].content = c
                                 /\ SelectByPath(start_db, p) = {}}

\* the rows of this content's hash and size whose path was not on disk
\* when the run began
VacatedAtStart(c) ==
    {r \in SelectByHashSize(start_db, Digest(c), SizeOf(c)) :
        ~os_path_exists(r.file_path)}

\* the files of Unrecorded with this outcome
WithOutcome(c, key) == {p \in Unrecorded(c) : outcome[p] = key}

\* at the end of the walk: of n unrecorded files of one hash and size and
\* k vacated rows of that hash and size, min(n, k) files are Moved, each
\* onto another of the vacated rows, and the others are New
MovesResolved ==
    \A c \in Contents :
        LET n == Cardinality(Unrecorded(c))
            k == Cardinality(VacatedAtStart(c))
            moved == WithOutcome(c, "moved_files")
        IN  /\ Cardinality(moved) = Least(n, k)
            /\ Cardinality(WithOutcome(c, "new_files")) = n - Least(n, k)
            /\ \A p \in moved : \E r \in db, o \in VacatedAtStart(c) :
                  r.file_path = p /\ r.id = o.id
            /\ \A p \in moved, q \in moved : \A r \in db, x \in db :
                  (r.file_path = p /\ x.file_path = q /\ r.id = x.id) => p = q

\* C17: a Moved step retargets one row and leaves the others as they were;
\* every visited file that is not excluded gets an outcome at its step;
\* and a run resolves min(n, k) moves for n files and k vacated rows.
C17_MovesOneVacancyEach ==
    [][/\ \A q \in FilePaths :
            (Visits(q) /\ Scanned(q)) =>
                /\ outcome'[q] # "-"
                /\ outcome'[q] = "moved_files" =>
                      /\ \E r \in db :
                            db' = (db \ {r}) \cup
                                    {[r EXCEPT !.file_path = q,
                                               !.file_name = basename(q),
                                               !.mtime = fs[q].mtime,
                                               !.last_seen = current_time,
                                               !.status = "active"]}
                      /\ nextId' = nextId
       /\ Reconciles => MovesResolved]_vars

\* two files were Moved onto two vacated rows of one hash and size
C17_Witness ==
    /\ pc = "done"
    /\ \E c \in Contents :
        /\ Cardinality(Unrecorded(c)) = 2
        /\ Cardinality(VacatedAtStart(c)) = 2
        /\ Cardinality(WithOutcome(c, "moved_files")) = 2
    /\ stats.moved_files = 2
    /\ stats.new_files = 0

FilesUnderRoot ==
    {p \in FilePaths : /\ fs[p].exists
                       /\ InSubtree(target_dir, p)
                       /\ ~should_exclude(p)}

\* the row describes the file on disk but for the hash, and this run saw it
DescribesFile(r, p) ==
    /\ r.file_path = p
    /\ r.file_size = SizeOf(fs[p].content)
    /\ r.mtime = fs[p].mtime
    /\ r.last_seen = current_time
    /\ r.status \in {"active", "corrupted"}

\* C19 as stated: after an audit with no error every file under the root
\* that is not excluded has exactly one row, with its path, size,
\* modified-time and hash, last_seen of this run and status active or
\* corrupted.
C19_RecordEqualsFile ==
    (pc = "done" /\ stats.errors = 0) =>
        \A p \in FilesUnderRoot :
            /\ Cardinality(SelectByPath(db, p)) = 1
            /\ \A r \in SelectByPath(db, p) :
                  /\ DescribesFile(r, p)
                  /\ r.sha256_hash = Digest(fs[p].content)

\* C19, amended: the row's hash is the file's when the run hashed the file;
\* for a file classified Unchanged it is the hash the row had when the run
\* began, whatever the file holds now.
C19_RecordEqualsFileAsHashed ==
    (pc = "done" /\ stats.errors = 0) =>
        \A p \in FilesUnderRoot :
            /\ Cardinality(SelectByPath(db, p)) = 1
            /\ \A r \in SelectByPath(db, p) :
                  /\ DescribesFile(r, p)
                  /\ outcome[p] # "skipped_unchanged" =>
                        r.sha256_hash = Digest(fs[p].content)
                  /\ outcome[p] = "skipped_unchanged" =>
                        \E o \in start_db : /\ o.id = r.id
                                            /\ o.file_path = p
                                            /\ o.sha256_hash = r.sha256_hash

\* an audit with no error ended with a hashed file and an Unchanged file
\* whose row has another hash than the file
C19_Witness ==
    /\ pc = "done"
    /\ stats.errors = 0
    /\ \E p \in FilesUnderRoot : \E r \in SelectByPath(db, p) :
        /\ outcome[p] = "skipped_unchanged"
        /\ r.sha256_hash # Digest(fs[p].content)
    /\ \E q \in FilesUnderRoot : outcome[q] \in {"new_files", "moved_files"}

\* C20: every row of the store has a hash, the digest of some content: a
\* row is inserted for a file only when the file was hashed, with that
\* hash, and no update writes an absent hash.
C20_HashPresent ==
    /\ \A r \in db : /\ r.sha256_hash \in Hashes
                      /\ r.sha256_hash # None
                      /\ r.sha256_hash # ""
    /\ pc \in {"walk", "done"} =>
          \A p \in FilePaths :
              outcome[p] = "new_files" =>
                  /\ fs[p].readable
                  /\ \E r \in db : /\ r.file_path = p
                                    /\ r.id \notin {o.id : o \in start_db}
                                    /\ r.sha256_hash = Digest(fs[p].content)

\* hashing failed for a file with no row and for a file with a row: none
\* was inserted for the one and the other's row kept its hash
C20_Witness ==
    /\ pc = "done"
    /\ db # {}
    /\ db = start_db
    /\ \E p \in FilePaths : outcome[p] = "errors" /\ SelectByPath(db, p) = {}
    /\ \E q \in FilePaths : outcome[q] = "errors" /\ SelectByPath(db, q) # {}

\* the outcomes a scanned file is counted in
OutcomeKeys ==
    {"skipped_unchanged", "new_files", "modified_files", "moved_files",
     "bitrot_detected", "errors"}

\* the files the running audit has counted in the outcome
CountedIn(key) == {p \in FilePaths : outcome[p] = key}

\* C21: at the end of an audit every file of the walk that is not excluded
\* has been counted in exactly one outcome, each counter is the number of
\* its files, and scanned = unchanged + new + modified + moved + bitrot +
\* errors; an excluded file is counted nowhere.
C21_ScannedIsSumOfOutcomes ==
    pc = "done" =>
        /\ \A p \in FilePaths :
              outcome[p] \in OutcomeKeys <=> (p \in os_walk(target_dir) /\ Scanned(p))
        /\ \A key \in OutcomeKeys : stats[key] = Cardinality(CountedIn(key))
        /\ stats.scanned = Cardinality({p \in os_walk(target_dir) : Scanned(p)})
        /\ stats.scanned = stats.skipped_unchanged + stats.new_files
                             + stats.modified_files + stats.moved_files
                             + stats.bitrot_detected + stats.errors

\* an audit ended with two outcomes counted and a file excluded
C21_Witness ==
    /\ pc = "done"
    /\ stats.scanned = 2
    /\ stats.skipped_unchanged = 1
    /\ stats.modified_files = 1
    /\ \E p \in os_walk(target_dir) : should_exclude(p)

\* the row at the path has the size, modified-time and hash of the file
SameAsFile(r, p) ==
    /\ SameSizeAndTime(r, p)
    /\ r.sha256_hash = Digest(fs[p].content)

\* C22: in a forced audit no file is classified Unchanged: a file with a
\* row that hashes successfully is classified Modified or BitRot, also
\* when its size, modified-time and hash are the row's, and the unchanged
\* counter stays zero.
C22_ForceNeverUnchanged ==
    [][/\ \A p \in FilePaths : \A r \in SelectByPath(db, p) :
            (Visits(p) /\ Scanned(p) /\ force_rehash /\ fs[p].readable) =>
                /\ outcome'[p] \in {"modified_files", "bitrot_detected"}
                /\ \E n \in db' : /\ n.id = r.id
                                  /\ SameAsFile(n, p)
                                  /\ n.last_seen = current_time
       /\ (force_rehash' /\ pc' \in {"walk", "done"}) =>
            /\ stats'.skipped_unchanged = 0
            /\ \A p \in FilePaths : outcome'[p] # "skipped_unchanged"]_vars

\* a forced audit ended having classified Modified a file whose size,
\* modified-time and hash were its row's when the audit began
C22_Witness ==
    /\ pc = "done"
    /\ force_rehash
    /\ stats.skipped_unchanged = 0
    /\ \E p \in FilePaths : \E o \in start_db :
        /\ SameAsFile(o, p)
        /\ outcome[p] = "modified_files"

====
